---- MODULE Spec2Model ----
(***************************************************************************)
(* popcorn-track: the embedded relational store (lib/database), the        *)
(* persistence facade (lib/storage), the profile/session state             *)
(* (contexts/AuthContext) and the MediaCard handlers that write through    *)
(* the facade.                                                             *)
(*                                                                         *)
(* Tables are sets of rows.  The AUTOINCREMENT row ids and the created_at  *)
(* columns are not modelled: no statement of the facade reads them.        *)
(* Profile ids are `profile_${Date.now()}`; the model numbers them with a  *)
(* strictly increasing clock (two profile dialogs are never confirmed in   *)
(* the same millisecond).                                                  *)
(***************************************************************************)
EXTENDS Integers, Sequences, FiniteSets, TLC

\* ------------------------------------------------------------------ bounds
MaxProfiles == 3
MaxMovie == 2
MaxShow == 1
MaxDate == 2
MaxEpisode == 2
MaxLen == 2
MaxRows == 2

\* --------------------------------------------------------------- constants
\* SQL NULL, the value of a statement parameter that was never bound
SqlNull == -1
\* localStorage.getItem('active_profile_id') === null
NoProfile == 0
\* the settings key 'tmdb_api_key', the only key the facade writes
TmdbApiKey == 1

ProfileIds == 1..MaxProfiles
Names == {"Alex", "Bea"}
Movies == 1..MaxMovie
Shows == 1..MaxShow
Dates == 1..MaxDate
Ratings == {0, 5}
Statuses == {"watching", "completed"}
MediaTypes == {"movie", "tv"}

\* React state `user === null`
NoUser == [id |-> NoProfile, name |-> ""]

\* collation order of the profile names (ORDER BY name)
NameOrd(n) == IF n = "Alex" THEN 1 ELSE IF n = "Bea" THEN 2 ELSE 0

\* ---------------------------------------------------------- JSON encoding
\* A serialized text is a sequence of one-character tokens.
NumText(n) == <<"0", "1", "2", "3", "4", "5", "6", "7", "8", "9">>[n + 1]
TextNum(t) == CHOOSE n \in 0..9 : NumText(n) = t

RECURSIVE JoinNums(_)
JoinNums(L) ==
  IF Len(L) = 0 THEN <<>>
  ELSE IF Len(L) = 1 THEN <<NumText(L[1])>>
  ELSE <<NumText(L[1]), ",">> \o JoinNums(Tail(L))

\* JSON.stringify of an array of small numbers
JSONStringify(L) == <<"[">> \o JoinNums(L) \o <<"]">>

RECURSIVE ParseNums(_)
ParseNums(t) ==
  IF Len(t) = 0 THEN <<>>
  ELSE IF t[1] = "," THEN ParseNums(Tail(t))
  ELSE <<TextNum(t[1])>> \o ParseNums(Tail(t))

\* JSON.parse of the text of an array of small numbers
JSONParse(t) == ParseNums(SubSeq(t, 2, Len(t) - 1))

Digits == {"0", "1", "2", "3", "4", "5", "6", "7", "8", "9"}

\* the texts JSON.parse accepts as an array of small numbers; on any other
\* text it throws a SyntaxError
IsJSON(t) ==
  /\ Len(t) >= 2
  /\ t[1] = "["
  /\ t[Len(t)] = "]"
  /\ LET inner == SubSeq(t, 2, Len(t) - 1)
     IN \/ Len(inner) = 0
        \/ /\ Len(inner) % 2 = 1
           /\ \A k \in DOMAIN inner :
                IF k % 2 = 1 THEN inner[k] \in Digits ELSE inner[k] = ","

\* `text || '[]'`: a NULL or empty column reads as the empty array text
OrEmptyArray(t) == IF t = <<>> THEN <<"[", "]">> ELSE t

\* genre ids the metadata API returns for an item
GenreIds(i) == <<i>>

EpisodeLists == UNION {[1..n -> 1..MaxEpisode] : n \in 0..MaxLen}

\* ------------------------------------------------------------------- state
VARIABLES
  db,                    \* the sql.js database: one set of rows per table
  activeProfileId,       \* localStorage['active_profile_id']
  user,                  \* AuthContext state
  profiles,
  isLoading,
  needsProfileCreation,
  pending,               \* the AuthContext call suspended at its await
  clock,                 \* Date.now(), counted in created profiles
  isInWatchlist,         \* MediaCard state, per mounted card <<type, id>>
  isWatched,
  last,                  \* the operation that completed last
  snapshot,              \* localStorage 'popcorn_track_db': {} or {the store}
  storageFull,           \* localStorage.setItem throws (quota exceeded)
  dbOpen,                \* the module's db is not null
  isInitialized          \* the module's isInitialized

vars == <<db, activeProfileId, user, profiles, isLoading, needsProfileCreation,
          pending, clock, isInWatchlist, isWatched, last, snapshot,
          storageFull, dbOpen, isInitialized>>

session == <<activeProfileId, user, profiles, isLoading, needsProfileCreation,
             pending, clock>>
cards == <<isInWatchlist, isWatched>>
engine == <<dbOpen, isInitialized>>

\* createTables on a new SQL.Database()
EmptyDb ==
  [users |-> {}, movies |-> {}, tv_shows |-> {},
   watched_movies |-> {}, watched_shows |-> {}, watchlist |-> {},
   settings |-> {}]

\* ---------------------------------------------------------- the snapshot
\* initDatabase: the store is loaded from the snapshot if there is one,
\* else created empty; createTables then adds what is missing
initDatabase(snap) == IF snap = {} THEN EmptyDb ELSE CHOOSE d \in snap : TRUE

\* initDatabase ran to its end: db is set and isInitialized is true
Initialized == dbOpen' = TRUE /\ isInitialized' = TRUE

\* executeQuery / executeNonQuery: `if (!db) await initDatabase()`, the
\* initialization succeeding
LazyInit == IF dbOpen THEN UNCHANGED engine ELSE Initialized

\* saveDatabase: the export overwrites the snapshot; a setItem that throws
\* is logged and swallowed
saveDatabase(d, snap, full) == IF full THEN snap ELSE {d}

\* the saveDatabase that ends every executeQuery and executeNonQuery
SaveDatabase ==
  /\ snapshot' = saveDatabase(db', snapshot, storageFull)
  /\ UNCHANGED storageFull

\* ------------------------------------------------------- statement binding
\* executeNonQuery: stmt.run(params) binds every parameter
NonQueryBind(params) == params

\* executeQuery: db.prepare(sql) and stmt.step() with no bind of params, so
\* every `?` of the statement is NULL
QueryBind(params) == [i \in DOMAIN params |-> SqlNull]

\* SQL `a = b`: never true when either side is NULL
SqlEq(a, b) == a # SqlNull /\ b # SqlNull /\ a = b

\* ------------------------------------------------------------ SQL helpers
\* INSERT OR REPLACE: the rows that clash with the new row on the table's
\* unique key are deleted, then the row is inserted
\* users: id TEXT PRIMARY KEY
UsersKey(r, n) == SqlEq(r.id, n.id)
\* movies, tv_shows: id INTEGER PRIMARY KEY
CacheKey(r, n) == SqlEq(r.id, n.id)
\* watched_movies: UNIQUE(user_id, movie_id)
WatchedMoviesKey(r, n) ==
  SqlEq(r.user_id, n.user_id) /\ SqlEq(r.movie_id, n.movie_id)
\* watched_shows: UNIQUE(user_id, show_id)
WatchedShowsKey(r, n) ==
  SqlEq(r.user_id, n.user_id) /\ SqlEq(r.show_id, n.show_id)
\* watchlist: UNIQUE(user_id, item_type, item_id)
WatchlistKey(r, n) ==
  /\ SqlEq(r.user_id, n.user_id)
  /\ r.item_type = n.item_type
  /\ SqlEq(r.item_id, n.item_id)

\* settings: key TEXT NOT NULL UNIQUE
SettingsKey(r, n) == SqlEq(r.key, n.key)

\* the unique key of each table
Clash(table, r, n) ==
  CASE table = "users" -> UsersKey(r, n)
    [] table = "movies" -> CacheKey(r, n)
    [] table = "tv_shows" -> CacheKey(r, n)
    [] table = "watched_movies" -> WatchedMoviesKey(r, n)
    [] table = "watched_shows" -> WatchedShowsKey(r, n)
    [] table = "watchlist" -> WatchlistKey(r, n)
    [] table = "settings" -> SettingsKey(r, n)

InsertOrReplace(rows, row, table) ==
  {r \in rows : ~Clash(table, r, row)} \cup {row}

\* the Movie / TVShow objects the metadata API hands to the facade
Movie(i) == [id |-> i, overview |-> "synopsis", genre_ids |-> GenreIds(i)]
TVShow(i) == [id |-> i, overview |-> "synopsis", genre_ids |-> GenreIds(i)]
\* a nested object that is `undefined`
Undefined == [id |-> NoProfile, overview |-> "", genre_ids |-> <<>>]
\* the `null` a cache read returns for a missing item
Null == [id |-> SqlNull, overview |-> "", genre_ids |-> <<>>]

\* ------------------------------------------------------ facade: profiles
\* an UPDATE in place of the upsert: a new profile is never stored
setUserUpdateOnly(d, u) ==
  [d EXCEPT !.users =
     {IF r.id = u.id THEN [id |-> u.id, name |-> u.name] ELSE r : r \in @}]

setUser(d, u) ==
  LET p == NonQueryBind(<<u.id, u.name>>)
  IN [d EXCEPT !.users =
        InsertOrReplace(@, [id |-> p[1], name |-> p[2]], "users")]

\* UPDATE users SET name = ? WHERE id = ?: a statement that matches no row
\* changes nothing and raises no error
updateUser(d, userId, updates) ==
  LET p == NonQueryBind(<<updates.name, userId>>)
  IN [d EXCEPT !.users =
        {IF SqlEq(r.id, p[2]) THEN [r EXCEPT !.name = p[1]] ELSE r : r \in @}]

\* SELECT * FROM users ORDER BY name: the sequences of all user rows in
\* name order (rows with equal names come in either order)
getAllProfiles(d) ==
  {s \in [1..Cardinality(d.users) -> d.users] :
     /\ \A i, j \in DOMAIN s : i # j => s[i] # s[j]
     /\ \A i, j \in DOMAIN s : i < j => NameOrd(s[i].name) <= NameOrd(s[j].name)}

\* the watchlist DELETE written without its WHERE clause
deleteUserWholeWatchlist(d, userId) ==
  [d EXCEPT
     !.watched_movies = {r \in @ : r.user_id # userId},
     !.watched_shows = {r \in @ : r.user_id # userId},
     !.watchlist = {},
     !.users = {r \in @ : r.id # userId}]

deleteUser(d, userId) ==
  LET p == NonQueryBind(<<userId>>)
  IN [d EXCEPT
        !.watched_movies = {r \in @ : ~SqlEq(r.user_id, p[1])},
        !.watched_shows = {r \in @ : ~SqlEq(r.user_id, p[1])},
        !.watchlist = {r \in @ : ~SqlEq(r.user_id, p[1])},
        !.users = {r \in @ : ~SqlEq(r.id, p[1])}]

\* ------------------------------------------------------ facade: settings
\* the API keys the settings page is given, and the null of a missing key
ApiKeys == {"key-a", "key-b"}
NoKey == ""

setTMDBApiKey(d, key) ==
  LET p == NonQueryBind(<<key>>)
  IN [d EXCEPT !.settings =
        InsertOrReplace(@, [key |-> TmdbApiKey, value |-> p[1]], "settings")]

\* SELECT value FROM settings WHERE key = ?
getTMDBApiKey(d) ==
  LET p == QueryBind(<<TmdbApiKey>>)
      results == {r \in d.settings : SqlEq(r.key, p[1])}
  IN IF results # {} THEN (CHOOSE r \in results : TRUE).value ELSE NoKey

\* --------------------------------------------------------- facade: cache
\* INSERT OR IGNORE: a cached row is never refreshed
cacheMovieInsertOrIgnore(d, movie) ==
  IF \E m \in d.movies : m.id = movie.id THEN d
  ELSE [d EXCEPT !.movies =
          @ \cup {[id |-> movie.id, overview |-> movie.overview,
                   genre_ids |-> JSONStringify(movie.genre_ids)]}]

cacheMovie(d, movie) ==
  LET p == NonQueryBind(<<movie.id, movie.overview,
                          JSONStringify(movie.genre_ids)>>)
  IN [d EXCEPT !.movies =
        InsertOrReplace(@, [id |-> p[1], overview |-> p[2],
                            genre_ids |-> p[3]], "movies")]

cacheTVShow(d, show) ==
  LET p == NonQueryBind(<<show.id, show.overview,
                          JSONStringify(show.genre_ids)>>)
  IN [d EXCEPT !.tv_shows =
        InsertOrReplace(@, [id |-> p[1], overview |-> p[2],
                            genre_ids |-> p[3]], "tv_shows")]

\* SELECT * FROM movies WHERE id = ?: null, or the row with its array decoded
getCachedMovie(d, movieId) ==
  LET p == QueryBind(<<movieId>>)
      results == {m \in d.movies : SqlEq(m.id, p[1])}
  IN IF results = {} THEN Null
     ELSE LET movie == CHOOSE m \in results : TRUE
          IN [id |-> movie.id, overview |-> movie.overview,
              genre_ids |-> JSONParse(OrEmptyArray(movie.genre_ids))]

getCachedTVShow(d, showId) ==
  LET p == QueryBind(<<showId>>)
      results == {x \in d.tv_shows : SqlEq(x.id, p[1])}
  IN IF results = {} THEN Null
     ELSE LET show == CHOOSE x \in results : TRUE
          IN [id |-> show.id, overview |-> show.overview,
              genre_ids |-> JSONParse(OrEmptyArray(show.genre_ids))]

\* getCachedMovie rejects: a row was returned and JSON.parse throws on it
getCachedMovieThrows(d, movieId) ==
  LET p == QueryBind(<<movieId>>)
  IN \E m \in d.movies :
       SqlEq(m.id, p[1]) /\ ~IsJSON(OrEmptyArray(m.genre_ids))

\* ------------------------------------------------ facade: watched movies
getWatchedMovies(d, userId) ==
  LET p == QueryBind(<<userId>>)
  IN {[rating |-> wm.rating,
       watched_date |-> wm.watched_date,
       user_id |-> wm.user_id,
       movie |-> [id |-> wm.movie_id, overview |-> m.overview,
                  genre_ids |-> JSONParse(OrEmptyArray(m.genre_ids))]] :
        <<wm, m>> \in {x \in d.watched_movies \X d.movies :
                         /\ SqlEq(x[1].movie_id, x[2].id)
                         /\ SqlEq(x[1].user_id, p[1])}}

\* a plain INSERT into a table without the unique key
addWatchedMoviePlainInsert(d, movie) ==
  LET c == cacheMovie(d, movie.movie)
  IN [c EXCEPT !.watched_movies =
        @ \cup {[user_id |-> movie.user_id, movie_id |-> movie.movie.id,
                 rating |-> movie.rating,
                 watched_date |-> movie.watched_date]}]

addWatchedMovie(d, movie) ==
  LET c == cacheMovie(d, movie.movie)
      p == NonQueryBind(<<movie.user_id, movie.movie.id, movie.rating,
                          movie.watched_date>>)
  IN [c EXCEPT !.watched_movies =
        InsertOrReplace(@, [user_id |-> p[1], movie_id |-> p[2],
                            rating |-> p[3], watched_date |-> p[4]],
                        "watched_movies")]

\* the DELETE written without the user_id condition
removeWatchedMovieAnyProfile(d, movieId, userId) ==
  LET p == NonQueryBind(<<movieId, userId>>)
  IN [d EXCEPT !.watched_movies = {r \in @ : ~SqlEq(r.movie_id, p[1])}]

removeWatchedMovie(d, movieId, userId) ==
  LET p == NonQueryBind(<<movieId, userId>>)
  IN [d EXCEPT !.watched_movies =
        {r \in @ : ~(SqlEq(r.movie_id, p[1]) /\ SqlEq(r.user_id, p[2]))}]

updateMovieRating(d, movieId, userId, rating) ==
  LET p == NonQueryBind(<<rating, movieId, userId>>)
  IN [d EXCEPT !.watched_movies =
        {IF SqlEq(r.movie_id, p[2]) /\ SqlEq(r.user_id, p[3])
           THEN [r EXCEPT !.rating = p[1]] ELSE r : r \in @}]

\* ------------------------------------------------- facade: watched shows
getWatchedShows(d, userId) ==
  LET p == QueryBind(<<userId>>)
  IN {[rating |-> ws.rating,
       status |-> ws.status,
       watched_episodes |-> JSONParse(OrEmptyArray(ws.watched_episodes)),
       user_id |-> ws.user_id,
       updated_date |-> ws.updated_at,
       show |-> [id |-> ws.show_id, overview |-> s.overview,
                 genre_ids |-> JSONParse(OrEmptyArray(s.genre_ids))]] :
        <<ws, s>> \in {x \in d.watched_shows \X d.tv_shows :
                         /\ SqlEq(x[1].show_id, x[2].id)
                         /\ SqlEq(x[1].user_id, p[1])}}

\* getWatchedShows rejects: JSON.parse throws on a returned row
getWatchedShowsThrows(d, userId) ==
  LET p == QueryBind(<<userId>>)
  IN \E x \in d.watched_shows \X d.tv_shows :
       /\ SqlEq(x[1].show_id, x[2].id)
       /\ SqlEq(x[1].user_id, p[1])
       /\ \/ ~IsJSON(OrEmptyArray(x[1].watched_episodes))
          \/ ~IsJSON(OrEmptyArray(x[2].genre_ids))

addWatchedShow(d, show) ==
  LET c == cacheTVShow(d, show.show)
      p == NonQueryBind(<<show.user_id, show.show.id, show.rating, show.status,
                          JSONStringify(show.watched_episodes),
                          show.updated_date>>)
  IN [c EXCEPT !.watched_shows =
        InsertOrReplace(@, [user_id |-> p[1], show_id |-> p[2],
                            rating |-> p[3], status |-> p[4],
                            watched_episodes |-> p[5], updated_at |-> p[6]],
                        "watched_shows")]

updateWatchedShow(d, show) ==
  LET p == NonQueryBind(<<show.rating, show.status,
                          JSONStringify(show.watched_episodes),
                          show.updated_date, show.show.id, show.user_id>>)
  IN [d EXCEPT !.watched_shows =
        {IF SqlEq(r.show_id, p[5]) /\ SqlEq(r.user_id, p[6])
           THEN [r EXCEPT !.rating = p[1], !.status = p[2],
                          !.watched_episodes = p[3], !.updated_at = p[4]]
           ELSE r : r \in @}]

removeWatchedShow(d, showId, userId) ==
  LET p == NonQueryBind(<<showId, userId>>)
  IN [d EXCEPT !.watched_shows =
        {r \in @ : ~(SqlEq(r.show_id, p[1]) /\ SqlEq(r.user_id, p[2]))}]

\* ----------------------------------------------------- facade: watchlist
\* the cache row a LEFT JOIN finds for a watchlist row, or the all-NULL row
LeftJoin(cache, w, type) ==
  LET hit == {c \in cache : w.item_type = type /\ SqlEq(w.item_id, c.id)}
  IN IF hit = {} THEN {[id |-> SqlNull, overview |-> "", genre_ids |-> <<>>]} ELSE hit

getWatchlist(d, userId) ==
  LET p == QueryBind(<<userId>>)
  IN {[type |-> w.item_type,
       item_id |-> w.item_id,
       added_date |-> w.added_date,
       user_id |-> w.user_id,
       movie |-> IF w.item_type = "movie"
                   THEN [id |-> w.item_id, overview |-> m.overview,
                         genre_ids |-> JSONParse(OrEmptyArray(m.genre_ids))]
                   ELSE Undefined,
       show |-> IF w.item_type = "tv"
                  THEN [id |-> w.item_id, overview |-> s.overview,
                        genre_ids |-> JSONParse(OrEmptyArray(s.genre_ids))]
                  ELSE Undefined] :
        <<w, m, s>> \in
          UNION {{w} \X LeftJoin(d.movies, w, "movie") \X LeftJoin(d.tv_shows, w, "tv") :
                   w \in {x \in d.watchlist : SqlEq(x.user_id, p[1])}}}

addToWatchlist(d, item) ==
  LET c1 == IF item.movie # Undefined THEN cacheMovie(d, item.movie) ELSE d
      c2 == IF item.show # Undefined THEN cacheTVShow(c1, item.show) ELSE c1
      p == NonQueryBind(<<item.user_id, item.type, item.item_id,
                          item.added_date>>)
  IN [c2 EXCEPT !.watchlist =
        InsertOrReplace(@, [user_id |-> p[1], item_type |-> p[2],
                            item_id |-> p[3], added_date |-> p[4]],
                        "watchlist")]

removeFromWatchlist(d, itemId, type, userId) ==
  LET p == NonQueryBind(<<itemId, type, userId>>)
  IN [d EXCEPT !.watchlist =
        {r \in @ : ~(/\ SqlEq(r.item_id, p[1])
                     /\ r.item_type = p[2]
                     /\ SqlEq(r.user_id, p[3]))}]

\* ----------------------------------------------------------- model state
Items == ({"movie"} \X Movies) \cup ({"tv"} \X Shows)

NoPending ==
  [op |-> "none", id |-> NoProfile, name |-> "", profiles |-> <<>>,
   user |-> NoUser]

\* no watched_movies row
NoRow ==
  [user_id |-> NoProfile, movie_id |-> NoProfile, rating |-> NoProfile,
   watched_date |-> NoProfile]

\* the operation that completed last, the branch it took and, for
\* addWatchedMovie, the row it was called with
Wrote(op, note, row) == [op |-> op, note |-> note, row |-> row]

Done(op, note) == Wrote(op, note, NoRow)

\* the profile owns a row in each of the three per-profile tables
OwnsRows(d, userId) ==
  /\ \E r \in d.watched_movies : r.user_id = userId
  /\ \E r \in d.watched_shows : r.user_id = userId
  /\ \E r \in d.watchlist : r.user_id = userId

RowCount(d) ==
  Cardinality(d.watched_movies) + Cardinality(d.watched_shows)
    + Cardinality(d.watchlist)

\* the routed pages are rendered: not loading, a user is active and no
\* AuthContext call is in flight (the UI serializes the user's actions)
Ready ==
  /\ ~isLoading
  /\ user # NoUser
  /\ pending = NoPending

\* MediaCard checkStatus: the flags a card computes from the three reads
CheckedInWatchlist(d, u) ==
  IF u = NoUser THEN {}
  ELSE {c \in Items : \E w \in getWatchlist(d, u.id) :
                        w.item_id = c[2] /\ w.type = c[1]}

CheckedWatched(d, u) ==
  IF u = NoUser THEN {}
  ELSE {c \in Items :
          IF c[1] = "movie"
            THEN \E m \in getWatchedMovies(d, u.id) : m.movie.id = c[2]
            ELSE \E w \in getWatchedShows(d, u.id) : w.show.id = c[2]}

Init ==
  /\ db = EmptyDb
  /\ activeProfileId = NoProfile
  /\ user = NoUser
  /\ profiles = <<>>
  /\ isLoading = TRUE
  /\ needsProfileCreation = FALSE
  /\ pending = NoPending
  /\ clock = 0
  /\ isInWatchlist = {}
  /\ isWatched = {}
  /\ last = Done("start", "")
  /\ snapshot = {}
  /\ storageFull = FALSE
  /\ dbOpen = FALSE
  /\ isInitialized = FALSE

\* ------------------------------------------------------------ AuthContext
\* a startup that ignores the remembered id
ActiveProfileFirst(savedProfiles, activeId) == savedProfiles[1]

\* initAuth, lines 46-61: the profile made active at startup
ActiveProfile(savedProfiles, activeId) ==
  LET found == {i \in DOMAIN savedProfiles : savedProfiles[i].id = activeId}
  IN IF activeId # NoProfile /\ found # {}
       THEN savedProfiles[CHOOSE i \in found : \A j \in found : i <= j]
       ELSE savedProfiles[1]

InitAuthNote(savedProfiles, activeId) ==
  IF Len(savedProfiles) = 0 THEN "empty"
  ELSE IF activeId = NoProfile THEN "unset"
  ELSE IF \E i \in DOMAIN savedProfiles : savedProfiles[i].id = activeId
    THEN "remembered"
  ELSE "fallback"

InitAuth ==
  /\ isLoading
  /\ \E savedProfiles \in getAllProfiles(db) :
       /\ profiles' = savedProfiles
       /\ IF Len(savedProfiles) = 0
            THEN /\ needsProfileCreation' = TRUE
                 /\ UNCHANGED <<user, activeProfileId>>
            ELSE /\ user' = ActiveProfile(savedProfiles, activeProfileId)
                 /\ activeProfileId' =
                      ActiveProfile(savedProfiles, activeProfileId).id
                 /\ UNCHANGED needsProfileCreation
       /\ last' = Done("initAuth",
                       InitAuthNote(savedProfiles, activeProfileId))
  /\ isLoading' = FALSE
  /\ isInWatchlist' = CheckedInWatchlist(db, user')
  /\ isWatched' = CheckedWatched(db, user')
  /\ UNCHANGED <<db, pending, clock>>
  /\ SaveDatabase
  /\ Initialized

\* the tab is reloaded or closed and opened again: React state is lost,
\* localStorage stays, and the store is the one the next initDatabase loads
\* from the snapshot
Reload ==
  /\ ~isLoading
  /\ user' = NoUser
  /\ profiles' = <<>>
  /\ isLoading' = TRUE
  /\ needsProfileCreation' = FALSE
  /\ pending' = NoPending
  /\ isInWatchlist' = {}
  /\ isWatched' = {}
  /\ last' = Done("reload", pending.op)
  /\ db' = initDatabase(snapshot)
  /\ UNCHANGED <<activeProfileId, clock, snapshot, storageFull>>
  /\ dbOpen' = FALSE /\ isInitialized' = FALSE

SwitchProfile(profileId) ==
  /\ Ready
  /\ \E i \in DOMAIN profiles :
       /\ profiles[i].id = profileId
       /\ \A j \in 1..(i - 1) : profiles[j].id # profileId
       /\ user' = profiles[i]
  /\ activeProfileId' = profileId
  /\ isInWatchlist' = CheckedInWatchlist(db, user')
  /\ isWatched' = CheckedWatched(db, user')
  /\ last' = Done("switchProfile", "")
  /\ UNCHANGED <<db, profiles, isLoading, needsProfileCreation, pending, clock>>
  /\ SaveDatabase
  /\ UNCHANGED engine

\* createProfile up to its await: storage.setUser(newProfile)
CreateProfileStart(name) ==
  /\ ~isLoading
  /\ pending = NoPending
  /\ needsProfileCreation \/ user # NoUser
  /\ clock < MaxProfiles
  /\ clock' = clock + 1
  /\ db' = setUser(db, [id |-> clock + 1, name |-> name])
  /\ pending' = [op |-> "createProfile", id |-> clock + 1, name |-> name,
                 profiles |-> profiles, user |-> user]
  /\ last' = Done("setUser", "create")
  /\ UNCHANGED <<activeProfileId, user, profiles, isLoading,
                 needsProfileCreation, cards>>
  /\ SaveDatabase
  /\ UNCHANGED engine

\* createProfile after its await, lines 90-100
CreateProfileFinish ==
  /\ pending.op = "createProfile"
  /\ LET newProfile == [id |-> pending.id, name |-> pending.name]
     IN /\ profiles' = Append(pending.profiles, newProfile)
        /\ IF Len(pending.profiles) = 0
             THEN /\ user' = newProfile
                  /\ activeProfileId' = newProfile.id
                  /\ needsProfileCreation' = FALSE
             ELSE UNCHANGED <<user, activeProfileId, needsProfileCreation>>
        /\ last' = Done("createProfile",
                        IF Len(pending.profiles) = 0 THEN "first" ELSE "more")
  /\ pending' = NoPending
  /\ isInWatchlist' = IF user' = user THEN isInWatchlist
                      ELSE CheckedInWatchlist(db, user')
  /\ isWatched' = IF user' = user THEN isWatched
                  ELSE CheckedWatched(db, user')
  /\ UNCHANGED <<db, isLoading, clock>>
  /\ IF user' = user THEN UNCHANGED <<snapshot, storageFull>> ELSE SaveDatabase
  /\ UNCHANGED engine

\* updateProfile(user.id, {name}) as the sidebar's edit dialog calls it
UpdateProfile(name) ==
  /\ Ready
  /\ \E i \in DOMAIN profiles :
       /\ profiles[i].id = user.id
       /\ \A j \in 1..(i - 1) : profiles[j].id # user.id
       /\ LET updatedProfile == [profiles[i] EXCEPT !.name = name]
          IN /\ db' = setUser(db, updatedProfile)
             /\ profiles' = [profiles EXCEPT ![i] = updatedProfile]
             /\ user' = updatedProfile
  /\ last' = Done("updateProfile", "")
  /\ UNCHANGED <<activeProfileId, isLoading, needsProfileCreation, pending,
                 clock, cards>>
  /\ SaveDatabase
  /\ UNCHANGED engine

\* a filter that keeps the deleted profile in the list
FilterProfilesKeepAll(profs, profileId) == profs

\* profiles.filter(p => p.id !== profileId)
FilterProfiles(profs, profileId) ==
  LET Keep(p) == p.id # profileId IN SelectSeq(profs, Keep)

\* deleteProfile up to its await: storage.deleteUser(profileId)
DeleteProfileStart(profileId) ==
  /\ Ready
  /\ \E i \in DOMAIN profiles : profiles[i].id = profileId
  /\ db' = deleteUser(db, profileId)
  /\ pending' = [op |-> "deleteProfile", id |-> profileId, name |-> "",
                 profiles |-> profiles, user |-> user]
  /\ last' = Done("deleteUser",
                  IF db.users = {r \in db.users : r.id = profileId} THEN "sole"
                  ELSE IF OwnsRows(db, profileId) THEN "rows"
                  ELSE "several")
  /\ UNCHANGED <<activeProfileId, user, profiles, isLoading,
                 needsProfileCreation, clock, cards>>
  /\ SaveDatabase
  /\ UNCHANGED engine

\* a deletion of the active profile that forgets to move the pointer
DeleteProfileStateKeepsPointer(profs, usr, activeId, needs, profileId) ==
  IF Len(profs) <= 1
    THEN [profiles |-> <<>>, user |-> NoUser, needsProfileCreation |-> TRUE,
          activeProfileId |-> NoProfile]
  ELSE IF usr.id = profileId
    THEN [profiles |-> FilterProfiles(profs, profileId),
          user |-> FilterProfiles(profs, profileId)[1],
          needsProfileCreation |-> needs,
          activeProfileId |-> activeId]
  ELSE [profiles |-> FilterProfiles(profs, profileId), user |-> usr,
        needsProfileCreation |-> needs, activeProfileId |-> activeId]

\* a last-profile branch that forgets setNeedsProfileCreation(true)
DeleteProfileStateKeepsFlag(profs, usr, activeId, needs, profileId) ==
  IF Len(profs) <= 1
    THEN [profiles |-> <<>>, user |-> NoUser, needsProfileCreation |-> needs,
          activeProfileId |-> NoProfile]
  ELSE IF usr.id = profileId
    THEN [profiles |-> FilterProfiles(profs, profileId),
          user |-> FilterProfiles(profs, profileId)[1],
          needsProfileCreation |-> needs,
          activeProfileId |-> FilterProfiles(profs, profileId)[1].id]
  ELSE [profiles |-> FilterProfiles(profs, profileId), user |-> usr,
        needsProfileCreation |-> needs, activeProfileId |-> activeId]

\* deleteProfile after its await: the state it leaves, lines 129-148
DeleteProfileState(profs, usr, activeId, needs, profileId) ==
  IF Len(profs) <= 1
    THEN [profiles |-> <<>>, user |-> NoUser, needsProfileCreation |-> TRUE,
          activeProfileId |-> NoProfile]
  ELSE IF usr.id = profileId
    THEN [profiles |-> FilterProfiles(profs, profileId),
          user |-> FilterProfiles(profs, profileId)[1],
          needsProfileCreation |-> needs,
          activeProfileId |-> FilterProfiles(profs, profileId)[1].id]
  ELSE [profiles |-> FilterProfiles(profs, profileId), user |-> usr,
        needsProfileCreation |-> needs, activeProfileId |-> activeId]

DeleteProfileFinish ==
  /\ pending.op = "deleteProfile"
  /\ LET s == DeleteProfileState(pending.profiles, pending.user,
                                 activeProfileId, needsProfileCreation,
                                 pending.id)
     IN /\ profiles' = s.profiles
        /\ user' = s.user
        /\ needsProfileCreation' = s.needsProfileCreation
        /\ activeProfileId' = s.activeProfileId
        /\ last' = Done("deleteProfile",
                        IF last.note = "sole" THEN "last"
                        ELSE IF user.id = pending.id THEN "active"
                        ELSE "other")
  /\ pending' = NoPending
  /\ isInWatchlist' = IF user' = user THEN isInWatchlist
                      ELSE CheckedInWatchlist(db, user')
  /\ isWatched' = IF user' = user THEN isWatched
                  ELSE CheckedWatched(db, user')
  /\ UNCHANGED <<db, isLoading, clock>>
  /\ IF user' = user \/ user' = NoUser
       THEN UNCHANGED <<snapshot, storageFull>>
       ELSE SaveDatabase
  /\ UNCHANGED engine

\* ------------------------------------------- facade calls of the pages
\* every caller passes user.id of the active profile as the profile id
WatchedMovieOf(m, r, date) ==
  [user_id |-> user.id, movie |-> Movie(m), rating |-> r, watched_date |-> date]

WatchedShowOf(s, r, st, L, date) ==
  [user_id |-> user.id, show |-> TVShow(s), rating |-> r, status |-> st,
   watched_episodes |-> L, updated_date |-> date]

WatchlistItemOf(type, i, date) ==
  [user_id |-> user.id, type |-> type, item_id |-> i,
   movie |-> IF type = "movie" THEN Movie(i) ELSE Undefined,
   show |-> IF type = "tv" THEN TVShow(i) ELSE Undefined,
   added_date |-> date]

AddWatchedMovie(m, r, date) ==
  /\ Ready
  /\ db' = addWatchedMovie(db, WatchedMovieOf(m, r, date))
  /\ last' = Wrote("addWatchedMovie",
                   IF \E x \in db.watched_movies :
                        /\ x.user_id = user.id /\ x.movie_id = m
                        /\ x.rating # r /\ x.watched_date # date
                     THEN "overwrite" ELSE "insert",
                   [user_id |-> user.id, movie_id |-> m, rating |-> r,
                    watched_date |-> date])
  /\ UNCHANGED <<session, cards>>
  /\ SaveDatabase
  /\ UNCHANGED engine

RemoveWatchedMovie(m) ==
  /\ Ready
  /\ db' = removeWatchedMovie(db, m, user.id)
  /\ db' # db
  /\ last' = Done("removeWatchedMovie", "")
  /\ UNCHANGED <<session, cards>>
  /\ SaveDatabase
  /\ UNCHANGED engine

\* MediaCard handleRating (type movie)
UpdateMovieRating(m, r) ==
  /\ Ready
  /\ db' = updateMovieRating(db, m, user.id, r)
  /\ last' = Done("updateMovieRating",
                  IF \E x \in db.watched_movies :
                       x.user_id = user.id /\ x.movie_id = m /\ x.rating # r
                    THEN "rated" ELSE "same")
  /\ UNCHANGED <<session, cards>>
  /\ SaveDatabase
  /\ UNCHANGED engine

AddWatchedShow(s, st, L, date) ==
  /\ Ready
  /\ db' = addWatchedShow(db, WatchedShowOf(s, 0, st, L, date))
  /\ last' = Done("addWatchedShow", "")
  /\ UNCHANGED <<session, cards>>
  /\ SaveDatabase
  /\ UNCHANGED engine

UpdateWatchedShow(s, st, L, date) ==
  /\ Ready
  /\ db' = updateWatchedShow(db, WatchedShowOf(s, 0, st, L, date))
  /\ \E x \in db.watched_shows : x.user_id = user.id /\ x.show_id = s
  /\ last' = Done("updateWatchedShow", "")
  /\ UNCHANGED <<session, cards>>
  /\ SaveDatabase
  /\ UNCHANGED engine

RemoveWatchedShow(s) ==
  /\ Ready
  /\ db' = removeWatchedShow(db, s, user.id)
  /\ db' # db
  /\ last' = Done("removeWatchedShow", "")
  /\ UNCHANGED <<session, cards>>
  /\ SaveDatabase
  /\ UNCHANGED engine

\* QuickSearchModal handleAddToWatchlist
AddToWatchlist(type, i, date) ==
  /\ Ready
  /\ db' = addToWatchlist(db, WatchlistItemOf(type, i, date))
  /\ last' = Done("addToWatchlist",
                  IF \E w \in db.watchlist : w.user_id = user.id
                    THEN "more" ELSE "first")
  /\ UNCHANGED <<session, cards>>
  /\ SaveDatabase
  /\ UNCHANGED engine

RemoveFromWatchlist(type, i) ==
  /\ Ready
  /\ db' = removeFromWatchlist(db, i, type, user.id)
  /\ db' # db
  /\ last' = Done("removeFromWatchlist", "")
  /\ UNCHANGED <<session, cards>>
  /\ SaveDatabase
  /\ UNCHANGED engine

\* -------------------------------------------------------------- MediaCard
\* the cards are mounted again (a new search, a page change): checkStatus
CheckStatus ==
  /\ Ready
  /\ isInWatchlist' = CheckedInWatchlist(db, user)
  /\ isWatched' = CheckedWatched(db, user)
  /\ <<isInWatchlist', isWatched'>> # <<isInWatchlist, isWatched>>
  /\ UNCHANGED <<db, session, last>>
  /\ SaveDatabase
  /\ UNCHANGED engine

\* the "Watchlist" button, shown while !isInWatchlist && !isWatched
HandleAddToWatchlist(c, date) ==
  /\ Ready
  /\ c \notin isInWatchlist
  /\ c \notin isWatched
  /\ db' = addToWatchlist(db, WatchlistItemOf(c[1], c[2], date))
  /\ isInWatchlist' = isInWatchlist \cup {c}
  /\ last' = Done("handleAddToWatchlist", "")
  /\ UNCHANGED <<session, isWatched>>
  /\ SaveDatabase
  /\ UNCHANGED engine

\* handleMarkWatched, lines 110-138: the database it leaves
MarkWatchedDb(d, u, c, inWatchlist, date) ==
  LET w == IF c[1] = "movie"
             THEN addWatchedMovie(d, [user_id |-> u.id, movie |-> Movie(c[2]),
                                      rating |-> 0, watched_date |-> date])
             ELSE addWatchedShow(d, [user_id |-> u.id, show |-> TVShow(c[2]),
                                     rating |-> 0, status |-> "completed",
                                     watched_episodes |-> <<>>,
                                     updated_date |-> date])
  IN IF inWatchlist THEN removeFromWatchlist(w, c[2], c[1], u.id) ELSE w

\* the "Watched" button, shown while isInWatchlist && !isWatched
HandleMarkWatched(c, date) ==
  /\ Ready
  /\ c \in isInWatchlist
  /\ c \notin isWatched
  /\ db' = MarkWatchedDb(db, user, c, c \in isInWatchlist, date)
  /\ isInWatchlist' = isInWatchlist \ {c}
  /\ isWatched' = isWatched \cup {c}
  /\ last' = Done("handleMarkWatched",
                  IF \E w \in db.watchlist :
                       /\ w.user_id = user.id
                       /\ w.item_type = c[1] /\ w.item_id = c[2]
                    THEN "listed" ELSE "unlisted")
  /\ UNCHANGED session
  /\ SaveDatabase
  /\ UNCHANGED engine

\* ----------------------------------------------------------- specification
Next ==
  \/ InitAuth
  \/ Reload
  \/ \E p \in ProfileIds : SwitchProfile(p)
  \/ \E n \in Names : CreateProfileStart(n)
  \/ CreateProfileFinish
  \/ \E n \in Names : UpdateProfile(n)
  \/ \E p \in ProfileIds : DeleteProfileStart(p)
  \/ DeleteProfileFinish
  \/ \E m \in Movies, r \in Ratings, d \in Dates : AddWatchedMovie(m, r, d)
  \/ \E m \in Movies : RemoveWatchedMovie(m)
  \/ \E m \in Movies, r \in Ratings : UpdateMovieRating(m, r)
  \/ \E s \in Shows, st \in Statuses, L \in EpisodeLists, d \in Dates :
       AddWatchedShow(s, st, L, d)
  \/ \E s \in Shows, st \in Statuses, L \in EpisodeLists, d \in Dates :
       UpdateWatchedShow(s, st, L, d)
  \/ \E s \in Shows : RemoveWatchedShow(s)
  \/ \E c \in Items, d \in Dates : AddToWatchlist(c[1], c[2], d)
  \/ \E c \in Items : RemoveFromWatchlist(c[1], c[2])
  \/ CheckStatus
  \/ \E c \in Items, d \in Dates : HandleAddToWatchlist(c, d)
  \/ \E c \in Items, d \in Dates : HandleMarkWatched(c, d)

Spec == Init /\ [][Next]_vars

\* Scoped specifications: the same actions, each with the inputs one group
\* of operations needs.

\* startup: profiles are created, renamed, switched and deleted, and the
\* tab is reloaded at any point, also while a call is suspended at its await
NextStartup ==
  \/ InitAuth
  \/ Reload
  \/ \E p \in ProfileIds : SwitchProfile(p)
  \/ \E n \in Names : CreateProfileStart(n)
  \/ CreateProfileFinish
  \/ \E n \in Names : UpdateProfile(n)
  \/ \E p \in ProfileIds : DeleteProfileStart(p)
  \/ DeleteProfileFinish

SpecStartup == Init /\ [][NextStartup]_vars

\* deletion: profiles that own at most one row per table are deleted
NextDelete ==
  \/ InitAuth
  \/ CreateProfileStart("Alex")
  \/ CreateProfileFinish
  \/ \E p \in ProfileIds : SwitchProfile(p)
  \/ \E p \in ProfileIds : DeleteProfileStart(p)
  \/ DeleteProfileFinish
  \/ AddWatchedMovie(1, 0, 1)
  \/ AddWatchedShow(1, "watching", <<>>, 1)
  \/ AddToWatchlist("movie", 1, 1)

SpecDelete == Init /\ [][NextDelete]_vars

\* two profiles named alike, enough to tell one profile's rows from another's
Setup ==
  \/ InitAuth
  \/ clock < 2 /\ CreateProfileStart("Alex")
  \/ CreateProfileFinish
  \/ \E p \in ProfileIds : SwitchProfile(p)

\* the scoped specifications below keep at most MaxRows rows in the three
\* per-profile tables together
Capped == RowCount(db') <= MaxRows

NextMovies ==
  \/ Setup
  \/ (\E m \in Movies, r \in Ratings, d \in Dates : AddWatchedMovie(m, r, d))
       /\ Capped
  \/ \E m \in Movies : RemoveWatchedMovie(m)
  \/ \E m \in Movies, r \in Ratings : UpdateMovieRating(m, r)

SpecMovies == Init /\ [][NextMovies]_vars

NextShows ==
  \/ Setup
  \/ (\E s \in Shows, st \in Statuses, L \in EpisodeLists, d \in Dates :
        AddWatchedShow(s, st, L, d))
       /\ Capped
  \/ \E s \in Shows, st \in Statuses, L \in EpisodeLists, d \in Dates :
       UpdateWatchedShow(s, st, L, d)
  \/ \E s \in Shows : RemoveWatchedShow(s)

SpecShows == Init /\ [][NextShows]_vars

NextWatchlist ==
  \/ Setup
  \/ (\E c \in Items, d \in Dates : AddToWatchlist(c[1], c[2], d)) /\ Capped
  \/ \E c \in Items : RemoveFromWatchlist(c[1], c[2])
  \/ CheckStatus
  \/ (\E c \in Items, d \in Dates : HandleAddToWatchlist(c, d)) /\ Capped
  \/ (\E c \in Items, d \in Dates : HandleMarkWatched(c, d)) /\ Capped
  \/ \E m \in Movies, r \in Ratings : UpdateMovieRating(m, r)

SpecWatchlist == Init /\ [][NextWatchlist]_vars

\* ------------------------------------------------------- facade: bulk
\* the three DELETEs written without their WHERE clause
clearUserDataEveryProfile(d, userId) ==
  [d EXCEPT !.watched_movies = {}, !.watched_shows = {}, !.watchlist = {}]

clearUserData(d, userId) ==
  LET p == NonQueryBind(<<userId>>)
  IN [d EXCEPT
        !.watched_movies = {r \in @ : ~SqlEq(r.user_id, p[1])},
        !.watched_shows = {r \in @ : ~SqlEq(r.user_id, p[1])},
        !.watchlist = {r \in @ : ~SqlEq(r.user_id, p[1])}]

\* ------------------------------------------------------- Settings page
\* handleSaveApiKey with a key the metadata API accepts
SetTMDBApiKey(k) ==
  /\ Ready
  /\ db' = setTMDBApiKey(db, k)
  /\ last' = Done("setTMDBApiKey",
                  IF \E r \in db.settings : r.value # k
                    THEN "again" ELSE "first")
  /\ UNCHANGED <<session, cards>>
  /\ SaveDatabase
  /\ UNCHANGED engine

\* handleClearUserData, confirmed
ClearUserData ==
  /\ Ready
  /\ db' = clearUserData(db, user.id)
  /\ last' = Done("clearUserData",
                  IF OwnsRows(db, user.id) THEN "rows" ELSE "none")
  /\ UNCHANGED <<session, cards>>
  /\ SaveDatabase
  /\ UNCHANGED engine

\* settings and bulk deletion beside the profile operations: two profiles
\* that own at most one row per table
NextSettings ==
  \/ Setup
  \/ \E p \in ProfileIds : DeleteProfileStart(p)
  \/ DeleteProfileFinish
  \/ \E k \in ApiKeys : SetTMDBApiKey(k)
  \/ ClearUserData
  \/ AddWatchedMovie(1, 0, 1)
  \/ AddWatchedShow(1, "watching", <<>>, 1)
  \/ AddToWatchlist("movie", 1, 1)

SpecSettings == Init /\ [][NextSettings]_vars

\* -------------------------------------------------------- localStorage
\* the origin's localStorage quota is reached: setItem throws from now on
StorageFills ==
  /\ ~storageFull
  /\ storageFull' = TRUE
  /\ last' = Done("localStorage", "full")
  /\ UNCHANGED <<db, session, cards, snapshot>>
  /\ UNCHANGED engine

\* writes and restarts while the quota may be reached
NextSnapshot ==
  \/ Setup
  \/ Reload
  \/ StorageFills
  \/ \E r \in Ratings : AddWatchedMovie(1, r, 1)
  \/ AddToWatchlist("movie", 1, 1)
  \/ \E k \in ApiKeys : SetTMDBApiKey(k)

SpecSnapshot == Init /\ [][NextSnapshot]_vars

\* ------------------------------------------------- facade: cache calls
\* the genre id lists and synopsis texts the cache operations are given
GenreLists == {<<>>, <<1>>, <<2, 1>>}
Overviews == {"synopsis", "longer synopsis"}

CachedItem(i, o, g) == [id |-> i, overview |-> o, genre_ids |-> g]

CacheMovie(i, o, g) ==
  /\ db' = cacheMovie(db, CachedItem(i, o, g))
  /\ last' = Done("cacheMovie",
                  IF \E m \in db.movies : m.id = i /\ m.overview # o
                    THEN "again" ELSE "new")
  /\ UNCHANGED <<session, cards>>
  /\ SaveDatabase
  /\ LazyInit

CacheTVShow(i, o, g) ==
  /\ db' = cacheTVShow(db, CachedItem(i, o, g))
  /\ last' = Done("cacheTVShow",
                  IF \E x \in db.tv_shows : x.id = i /\ x.overview # o
                    THEN "again" ELSE "new")
  /\ UNCHANGED <<session, cards>>
  /\ SaveDatabase
  /\ LazyInit

GetCachedMovie(i) ==
  /\ last' = Done("getCachedMovie",
                  IF getCachedMovieThrows(db, i) THEN "error"
                  ELSE IF getCachedMovie(db, i) = Null THEN "null"
                  ELSE "item")
  /\ UNCHANGED <<db, session, cards>>
  /\ SaveDatabase
  /\ LazyInit

GetCachedTVShow(i) ==
  /\ last' = Done("getCachedTVShow",
                  IF getCachedTVShow(db, i) = Null THEN "null" ELSE "item")
  /\ UNCHANGED <<db, session, cards>>
  /\ SaveDatabase
  /\ LazyInit

\* the cache specification keeps at most MaxRows cache rows
CacheCapped == Cardinality(db'.movies) + Cardinality(db'.tv_shows) <= MaxRows

NextCache ==
  \/ (\E i \in Movies, o \in Overviews, g \in GenreLists : CacheMovie(i, o, g))
       /\ CacheCapped
  \/ (\E i \in Shows, o \in Overviews, g \in GenreLists : CacheTVShow(i, o, g))
       /\ CacheCapped
  \/ \E i \in Movies : GetCachedMovie(i)
  \/ \E i \in Shows : GetCachedTVShow(i)

SpecCache == Init /\ [][NextCache]_vars

\* ------------------------------------------------ initialization failure
\* where initDatabase throws: "engine" is initSqlJs rejecting (the wasm file
\* is fetched from sql.js.org), "snapshot" is JSON.parse throwing on the
\* stored text, both before db is assigned; "indexes" is a CREATE INDEX of
\* createTables throwing, after db was assigned and the tables were created
InitFaults == {"engine", "snapshot", "indexes"}

\* initDatabase entered with db null and throwing at fault: the catch logs
\* and rethrows, isInitialized stays false, db keeps what was assigned
FailedInit(fault) ==
  /\ ~dbOpen
  /\ fault = "snapshot" => snapshot # {}
  /\ dbOpen' = (fault = "indexes")
  /\ isInitialized' = FALSE
  /\ UNCHANGED <<db, snapshot, storageFull>>

\* initAuth whose storage.init() rejects: the catch logs, the finally block
\* clears isLoading, nothing else is set
InitAuthFails(fault) ==
  /\ isLoading
  /\ FailedInit(fault)
  /\ isLoading' = FALSE
  /\ last' = Done("initAuth", "rejected")
  /\ UNCHANGED <<activeProfileId, user, profiles, needsProfileCreation,
                 pending, clock, cards>>

\* a facade operation called while db is null whose initDatabase throws:
\* the operation rejects before it prepares its statement
LazyInitFails(fault) ==
  /\ FailedInit(fault)
  /\ last' = Done("executeQuery", "rejected")
  /\ UNCHANGED <<session, cards>>

FacadeOps == {"cacheMovie", "getCachedMovie"}

NextInitFailure ==
  \/ InitAuth
  \/ \E fault \in InitFaults : InitAuthFails(fault)
  \/ Reload
  \/ \E fault \in InitFaults : LazyInitFails(fault)
  \/ (\E i \in Movies, o \in Overviews, g \in GenreLists : CacheMovie(i, o, g))
       /\ CacheCapped
  \/ \E i \in Movies : GetCachedMovie(i)

SpecInitFailure == Init /\ [][NextInitFailure]_vars

\* ------------------------------------------------- malformed stored text
\* stored texts the facade never writes: NULL or '' (the empty sequence), a
\* truncated array, an array with a stray comma
DamagedTexts == {<<>>, <<"[", "1">>, <<"[", ",", "]">>}

\* the snapshot was edited outside the application and loaded: the
\* genre_ids text of the cached movie i is t
StoredGenreIdsReplaced(i, t) ==
  /\ \E m \in db.movies : m.id = i /\ m.genre_ids # t
  /\ db' = [db EXCEPT !.movies =
              {IF m.id = i THEN [m EXCEPT !.genre_ids = t] ELSE m : m \in @}]
  /\ snapshot' = {db'}
  /\ last' = Done("snapshot", "edited")
  /\ UNCHANGED <<session, cards, storageFull, engine>>

\* likewise for the watched_episodes text of the watched_shows rows of show s
StoredEpisodesReplaced(s, t) ==
  /\ \E x \in db.watched_shows : x.show_id = s /\ x.watched_episodes # t
  /\ db' = [db EXCEPT !.watched_shows =
              {IF x.show_id = s THEN [x EXCEPT !.watched_episodes = t] ELSE x :
                 x \in @}]
  /\ snapshot' = {db'}
  /\ last' = Done("snapshot", "edited")
  /\ UNCHANGED <<session, cards, storageFull, engine>>

\* a page loads the watched shows of the active profile
GetWatchedShows ==
  /\ Ready
  /\ last' = Done("getWatchedShows",
                  IF getWatchedShowsThrows(db, user.id) THEN "error"
                  ELSE IF getWatchedShows(db, user.id) = {} THEN "empty"
                  ELSE "rows")
  /\ UNCHANGED <<db, session, cards>>
  /\ SaveDatabase
  /\ UNCHANGED engine

NextMalformed ==
  \/ Setup
  \/ (\E s \in Shows, L \in {<<>>, <<1>>} : AddWatchedShow(s, "watching", L, 1))
       /\ Capped
  \/ (\E i \in Movies, g \in GenreLists : CacheMovie(i, "synopsis", g))
       /\ CacheCapped
  \/ \E i \in Movies, t \in DamagedTexts : StoredGenreIdsReplaced(i, t)
  \/ \E s \in Shows, t \in DamagedTexts : StoredEpisodesReplaced(s, t)
  \/ \E i \in Movies : GetCachedMovie(i)
  \/ GetWatchedShows

SpecMalformed == Init /\ [][NextMalformed]_vars

\* ------------------------------------------------------- profile updates
\* storage.updateUser(userId, {name}) called on the facade
UpdateUser(userId, name) ==
  /\ db' = updateUser(db, userId, [name |-> name])
  /\ last' = Done("updateUser",
                  IF \E r \in db.users : r.id = userId THEN "updated"
                  ELSE "resolved")
  /\ UNCHANGED <<session, cards>>
  /\ SaveDatabase
  /\ LazyInit

\* updateProfile(profileId, ...) for an id that findIndex does not find in
\* the session's profiles: throws 'Profile not found' before any write
UpdateProfileNotFound(profileId) ==
  /\ Ready
  /\ \A i \in DOMAIN profiles : profiles[i].id # profileId
  /\ last' = Done("updateProfile", "error")
  /\ UNCHANGED <<db, session, cards, snapshot, storageFull, engine>>

NextUpdate ==
  \/ InitAuth
  \/ Reload
  \/ \E p \in ProfileIds : SwitchProfile(p)
  \/ \E n \in Names : CreateProfileStart(n)
  \/ CreateProfileFinish
  \/ \E n \in Names : UpdateProfile(n)
  \/ \E p \in ProfileIds : UpdateProfileNotFound(p)
  \/ \E p \in ProfileIds, n \in Names : UpdateUser(p, n)
  \/ \E p \in ProfileIds : DeleteProfileStart(p)
  \/ DeleteProfileFinish

SpecUpdate == Init /\ [][NextUpdate]_vars

\* ------------------------------------------------ two-statement writes
\* addWatchedMovie, addWatchedShow and addToWatchlist await two statements;
\* the tab can be closed or reloaded between them
AddOps == {"addWatchedMovie", "addWatchedShow", "addToWatchlist"}

\* the calls the pages make: a movie is marked watched, a show is marked
\* watched, an item of either type is put on the watchlist
AddCalls ==
  ({"addWatchedMovie"} \X {"movie"} \X Movies)
    \cup ({"addWatchedShow"} \X {"tv"} \X Shows)
    \cup ({"addToWatchlist"} \X {"movie"} \X Movies)
    \cup ({"addToWatchlist"} \X {"tv"} \X Shows)

\* the dependent write placed before the cache write
AddStatementsLinkFirst == <<"link", "cache">>

\* the order of the two awaited statements
AddStatements == <<"cache", "link">>

\* await storage.cacheMovie(...) / storage.cacheTVShow(...)
CacheStatement(d, type, i) ==
  IF type = "movie" THEN cacheMovie(d, Movie(i)) ELSE cacheTVShow(d, TVShow(i))

\* the INSERT OR REPLACE into the dependent table
LinkStatement(d, op, type, i, userId) ==
  IF op = "addWatchedMovie"
    THEN LET p == NonQueryBind(<<userId, i, 0, 1>>)
         IN [d EXCEPT !.watched_movies =
               InsertOrReplace(@, [user_id |-> p[1], movie_id |-> p[2],
                                   rating |-> p[3], watched_date |-> p[4]],
                               "watched_movies")]
  ELSE IF op = "addWatchedShow"
    THEN LET p == NonQueryBind(<<userId, i, 0, "completed",
                                 JSONStringify(<<>>), 1>>)
         IN [d EXCEPT !.watched_shows =
               InsertOrReplace(@, [user_id |-> p[1], show_id |-> p[2],
                                   rating |-> p[3], status |-> p[4],
                                   watched_episodes |-> p[5],
                                   updated_at |-> p[6]],
                               "watched_shows")]
  ELSE LET p == NonQueryBind(<<userId, type, i, 1>>)
       IN [d EXCEPT !.watchlist =
             InsertOrReplace(@, [user_id |-> p[1], item_type |-> p[2],
                                 item_id |-> p[3], added_date |-> p[4]],
                             "watchlist")]

\* the k-th awaited statement of an add operation
AddStatement(k, d, op, type, i, userId) ==
  IF AddStatements[k] = "cache" THEN CacheStatement(d, type, i)
  ELSE LinkStatement(d, op, type, i, userId)

\* an add operation up to the end of its first await
AddBegin(op, type, i) ==
  /\ Ready
  /\ RowCount(db) < MaxRows
  /\ db' = AddStatement(1, db, op, type, i, user.id)
  /\ pending' = [NoPending EXCEPT !.op = op, !.id = i, !.name = type,
                                  !.user = user]
  /\ last' = Done(op, "first")
  /\ UNCHANGED <<activeProfileId, user, profiles, isLoading,
                 needsProfileCreation, clock, cards>>
  /\ SaveDatabase
  /\ UNCHANGED engine

\* its second await
AddFinish ==
  /\ pending.op \in AddOps
  /\ db' = AddStatement(2, db, pending.op, pending.name, pending.id,
                        pending.user.id)
  /\ pending' = NoPending
  /\ last' = Done(pending.op, "second")
  /\ UNCHANGED <<activeProfileId, user, profiles, isLoading,
                 needsProfileCreation, clock, cards>>
  /\ SaveDatabase
  /\ UNCHANGED engine

\* storage.clear: one DELETE per table, in this order
ClearTables ==
  <<"watched_movies", "watched_shows", "watchlist", "settings", "movies",
    "tv_shows", "users">>

\* storage.clear() up to the end of its k-th await
ClearStep(k) ==
  /\ ~isLoading
  /\ IF k = 1 THEN pending = NoPending
     ELSE pending.op = "clear" /\ pending.id = k - 1
  /\ db' = [db EXCEPT ![ClearTables[k]] = {}]
  /\ pending' = IF k = Len(ClearTables) THEN NoPending
                ELSE [NoPending EXCEPT !.op = "clear", !.id = k]
  /\ last' = Done("clear", ClearTables[k])
  /\ UNCHANGED <<activeProfileId, user, profiles, isLoading,
                 needsProfileCreation, clock, cards>>
  /\ SaveDatabase
  /\ UNCHANGED engine

NextTwoStep ==
  \/ Setup
  \/ Reload
  \/ \E c \in AddCalls : AddBegin(c[1], c[2], c[3])
  \/ AddFinish
  \/ \E k \in DOMAIN ClearTables : ClearStep(k)

SpecTwoStep == Init /\ [][NextTwoStep]_vars

\* ------------------------------------------------ overlapping profile calls
\* a createProfile call that starts while another AuthContext call awaits the
\* store, and runs to its end before that call resumes: it reads profiles and
\* user as they are rendered now
CreateProfileOverlapping(name) ==
  /\ ~isLoading
  /\ pending.op \in {"createProfile", "deleteProfile"}
  /\ needsProfileCreation \/ user # NoUser
  /\ clock < MaxProfiles
  /\ clock' = clock + 1
  /\ LET newProfile == [id |-> clock + 1, name |-> name]
     IN /\ db' = setUser(db, newProfile)
        /\ profiles' = Append(profiles, newProfile)
        /\ IF Len(profiles) = 0
             THEN /\ user' = newProfile
                  /\ activeProfileId' = newProfile.id
                  /\ needsProfileCreation' = FALSE
             ELSE UNCHANGED <<user, activeProfileId, needsProfileCreation>>
  /\ last' = Done("createProfile", "overlapping")
  /\ UNCHANGED <<isLoading, pending, cards>>
  /\ SaveDatabase
  /\ UNCHANGED engine

\* likewise a deleteProfile call of a listed profile
DeleteProfileOverlapping(profileId) ==
  /\ ~isLoading
  /\ pending.op \in {"createProfile", "deleteProfile"}
  /\ \E i \in DOMAIN profiles : profiles[i].id = profileId
  /\ db' = deleteUser(db, profileId)
  /\ LET s == DeleteProfileState(profiles, user, activeProfileId,
                                 needsProfileCreation, profileId)
     IN /\ profiles' = s.profiles
        /\ user' = s.user
        /\ needsProfileCreation' = s.needsProfileCreation
        /\ activeProfileId' = s.activeProfileId
  /\ last' = Done("deleteProfile", "overlapping")
  /\ UNCHANGED <<isLoading, pending, clock, cards>>
  /\ SaveDatabase
  /\ UNCHANGED engine

NextOverlap ==
  \/ InitAuth
  \/ \E p \in ProfileIds : SwitchProfile(p)
  \/ \E n \in Names : CreateProfileStart(n)
  \/ CreateProfileFinish
  \/ \E n \in Names : UpdateProfile(n)
  \/ \E p \in ProfileIds : DeleteProfileStart(p)
  \/ DeleteProfileFinish
  \/ \E n \in Names : CreateProfileOverlapping(n)
  \/ \E p \in ProfileIds : DeleteProfileOverlapping(p)

SpecOverlap == Init /\ [][NextOverlap]_vars

\* ------------------------------------------------- concurrent initialization
\* initDatabase calls that may await initSqlJs at the same time
MaxInits == 2

\* an initDatabase call (from storage.init, or from executeQuery /
\* executeNonQuery / getDatabase finding db null) passes the check of line 8
\* and awaits initSqlJs
InitDatabaseCall ==
  /\ ~(dbOpen /\ isInitialized)
  /\ pending.op \in {"none", "initDatabase"}
  /\ pending.id < MaxInits
  /\ pending' = [NoPending EXCEPT !.op = "initDatabase", !.id = pending.id + 1]
  /\ last' = Done("initDatabase", "called")
  /\ UNCHANGED <<db, activeProfileId, user, profiles, isLoading,
                 needsProfileCreation, clock, cards, snapshot, storageFull,
                 engine>>

\* such a call resumes after its await: it loads the snapshot into a new
\* Database, assigns it to db whatever db holds, and creates the schema
InitDatabaseResumes ==
  /\ pending.op = "initDatabase"
  /\ db' = initDatabase(snapshot)
  /\ Initialized
  /\ pending' = IF pending.id = 1 THEN NoPending
                ELSE [pending EXCEPT !.id = pending.id - 1]
  /\ last' = Done("initDatabase", IF dbOpen THEN "replaced" ELSE "created")
  /\ UNCHANGED <<activeProfileId, user, profiles, isLoading,
                 needsProfileCreation, clock, cards, snapshot, storageFull>>

NextLazyInit ==
  \/ InitDatabaseCall
  \/ InitDatabaseResumes
  \/ InitAuth
  \/ Reload
  \/ StorageFills
  \/ (\E i \in Movies, o \in Overviews, g \in GenreLists : CacheMovie(i, o, g))
       /\ CacheCapped
  \/ \E i \in Movies : GetCachedMovie(i)

SpecLazyInit == Init /\ [][NextLazyInit]_vars

\* ------------------------------------------- adds overlapping a deletion
\* an add operation started from a page rendered before a deleteProfile call
\* in flight has updated the state: it writes for the user of that render
AddOverlapping(op, type, i) ==
  /\ ~isLoading
  /\ user # NoUser
  /\ pending.op = "deleteProfile"
  /\ RowCount(db) < MaxRows
  /\ db' = LinkStatement(CacheStatement(db, type, i), op, type, i, user.id)
  /\ last' = Done(op, "overlapping")
  /\ UNCHANGED <<session, cards>>
  /\ SaveDatabase
  /\ UNCHANGED engine

NextOrphan ==
  \/ NextDelete
  \/ \E c \in AddCalls : AddOverlapping(c[1], c[2], c[3])

SpecOrphan == Init /\ [][NextOrphan]_vars

\* ------------------------------------------- Settings page: create profile
\* switchProfile run on the profile list profs its closure holds: the user
\* and the pointer it leaves
SwitchProfileState(profs, usr, activeId, profileId) ==
  LET found == {i \in DOMAIN profs : profs[i].id = profileId}
  IN IF found = {} THEN [user |-> usr, activeProfileId |-> activeId]
     ELSE [user |-> profs[CHOOSE i \in found : \A j \in found : i <= j],
           activeProfileId |-> profileId]

\* handleCreateProfile of the Settings page: createProfile(name), then
\* switchProfile(newProfile.id), both taken from the render of the click
HandleCreateProfile(name) ==
  /\ Ready
  /\ clock < MaxProfiles
  /\ clock' = clock + 1
  /\ LET newProfile == [id |-> clock + 1, name |-> name]
         created == IF Len(profiles) = 0
                      THEN [user |-> newProfile,
                            activeProfileId |-> newProfile.id,
                            needsProfileCreation |-> FALSE]
                      ELSE [user |-> user, activeProfileId |-> activeProfileId,
                            needsProfileCreation |-> needsProfileCreation]
         s == SwitchProfileState(profiles, created.user,
                                 created.activeProfileId, newProfile.id)
     IN /\ db' = setUser(db, newProfile)
        /\ profiles' = Append(profiles, newProfile)
        /\ needsProfileCreation' = created.needsProfileCreation
        /\ user' = s.user
        /\ activeProfileId' = s.activeProfileId
  /\ last' = Done("handleCreateProfile", "")
  /\ isInWatchlist' = IF user' = user THEN isInWatchlist
                      ELSE CheckedInWatchlist(db, user')
  /\ isWatched' = IF user' = user THEN isWatched
                  ELSE CheckedWatched(db, user')
  /\ UNCHANGED <<isLoading, pending>>
  /\ SaveDatabase
  /\ UNCHANGED engine

NextCreate ==
  \/ InitAuth
  \/ Reload
  \/ \E p \in ProfileIds : SwitchProfile(p)
  \/ \E n \in Names : CreateProfileStart(n)
  \/ CreateProfileFinish
  \/ \E n \in Names : HandleCreateProfile(n)

SpecCreate == Init /\ [][NextCreate]_vars

\* ------------------------------------------------------ profile isolation
\* every add, update and remove operation of the three per-profile tables,
\* by two profiles
NextIsolation ==
  \/ Setup
  \/ (\E m \in Movies : AddWatchedMovie(m, 0, 1)) /\ Capped
  \/ \E m \in Movies : RemoveWatchedMovie(m)
  \/ \E m \in Movies : UpdateMovieRating(m, 5)
  \/ (\E s \in Shows : AddWatchedShow(s, "watching", <<>>, 1)) /\ Capped
  \/ \E s \in Shows : UpdateWatchedShow(s, "completed", <<1>>, 1)
  \/ \E s \in Shows : RemoveWatchedShow(s)
  \/ (\E c \in Items : AddToWatchlist(c[1], c[2], 1)) /\ Capped
  \/ \E c \in Items : RemoveFromWatchlist(c[1], c[2])

SpecIsolation == Init /\ [][NextIsolation]_vars

\* ------------------------------------------- deleteProfile of an unlisted id
\* deleteProfile(profileId) called with an id that is not in the rendered
\* profile list: deleteUser matches no row, the state update runs as always
DeleteProfileUnlisted(profileId) ==
  /\ Ready
  /\ \A i \in DOMAIN profiles : profiles[i].id # profileId
  /\ db' = deleteUser(db, profileId)
  /\ LET s == DeleteProfileState(profiles, user, activeProfileId,
                                 needsProfileCreation, profileId)
     IN /\ profiles' = s.profiles
        /\ user' = s.user
        /\ needsProfileCreation' = s.needsProfileCreation
        /\ activeProfileId' = s.activeProfileId
  /\ last' = Done("deleteProfile", "unlisted")
  /\ UNCHANGED <<isLoading, pending, clock, cards>>
  /\ SaveDatabase
  /\ UNCHANGED engine

NextNeeds ==
  \/ NextOverlap
  \/ \E p \in ProfileIds : DeleteProfileUnlisted(p)

SpecNeeds == Init /\ [][NextNeeds]_vars

\* ------------------------------------------- marking a watchlist item
\* the watchlist removal placed before the watched write
MarkWatchedStatementsRemoveFirst == <<"remove", "watched">>

\* handleMarkWatched awaits the watched write (lines 113-131), then the
\* watchlist removal (lines 133-136)
MarkWatchedStatements == <<"watched", "remove">>

\* the k-th awaited store call of handleMarkWatched
MarkWatchedStatement(k, d, u, c, date) ==
  IF MarkWatchedStatements[k] = "watched"
    THEN MarkWatchedDb(d, u, c, FALSE, date)
    ELSE removeFromWatchlist(d, c[2], c[1], u.id)

\* handleMarkWatched up to the end of its first awaited store call
MarkWatchedBegin(c, date) ==
  /\ Ready
  /\ c \in isInWatchlist
  /\ c \notin isWatched
  /\ db' = MarkWatchedStatement(1, db, user, c, date)
  /\ pending' = [NoPending EXCEPT !.op = "handleMarkWatched", !.id = c[2],
                                  !.name = c[1], !.user = user]
  /\ last' = Done("handleMarkWatched", "first")
  /\ UNCHANGED <<activeProfileId, user, profiles, isLoading,
                 needsProfileCreation, clock, cards>>
  /\ SaveDatabase
  /\ UNCHANGED engine

\* its second awaited store call, then setIsInWatchlist(false) and
\* setIsWatched(true)
MarkWatchedFinish(date) ==
  /\ pending.op = "handleMarkWatched"
  /\ LET c == <<pending.name, pending.id>>
     IN /\ db' = MarkWatchedStatement(2, db, pending.user, c, date)
        /\ isInWatchlist' = isInWatchlist \ {c}
        /\ isWatched' = isWatched \cup {c}
  /\ pending' = NoPending
  /\ last' = Done("handleMarkWatched", "second")
  /\ UNCHANGED <<activeProfileId, user, profiles, isLoading,
                 needsProfileCreation, clock>>
  /\ SaveDatabase
  /\ UNCHANGED engine

\* the k-th awaited store call rejects: the catch block logs, the later
\* statements of the try block are skipped
MarkWatchedRejected(k, c) ==
  /\ IF k = 1
       THEN Ready /\ c \in isInWatchlist /\ c \notin isWatched
       ELSE pending.op = "handleMarkWatched" /\ c = <<pending.name, pending.id>>
  /\ pending' = NoPending
  /\ last' = Done("handleMarkWatched", "rejected")
  /\ UNCHANGED <<db, activeProfileId, user, profiles, isLoading,
                 needsProfileCreation, clock, cards, snapshot, storageFull>>
  /\ UNCHANGED engine

NextMarkWatched ==
  \/ InitAuth
  \/ clock < 2 /\ CreateProfileStart("Alex")
  \/ CreateProfileFinish
  \/ Reload
  \/ StorageFills
  \/ CheckStatus
  \/ (\E c \in Items : HandleAddToWatchlist(c, 1)) /\ Capped
  \/ (\E c \in Items : MarkWatchedBegin(c, 1)) /\ Capped
  \/ MarkWatchedFinish(1)
  \/ \E k \in DOMAIN MarkWatchedStatements, c \in Items :
       MarkWatchedRejected(k, c)

SpecMarkWatched == Init /\ [][NextMarkWatched]_vars

\* ---------------------------------------------------------------- claims
\* C1: watched_movies never holds two rows for one (profile, movie), and
\* once addWatchedMovie has run for a (profile, movie) there is exactly one
\* row for it, carrying the rating and the watched date of that (the latest)
\* call.
C1_AddWatchedMovieReplaces ==
  /\ \A a, b \in db.watched_movies :
       a.user_id = b.user_id /\ a.movie_id = b.movie_id => a = b
  /\ last.op = "addWatchedMovie" =>
       {x \in db.watched_movies :
          x.user_id = last.row.user_id /\ x.movie_id = last.row.movie_id}
         = {last.row}

\* a second addWatchedMovie replaced a row that had another rating and date,
\* while the profile has a row for another movie as well
C1_Witness ==
  /\ last.op = "addWatchedMovie"
  /\ last.note = "overwrite"
  /\ \E x \in db.watched_movies :
       x.user_id = last.row.user_id /\ x.movie_id # last.row.movie_id

\* the rows of the profiles other than p, and the rows of p
RowsOfOthers(d, p) ==
  [users |-> {r \in d.users : r.id # p},
   watched_movies |-> {r \in d.watched_movies : r.user_id # p},
   watched_shows |-> {r \in d.watched_shows : r.user_id # p},
   watchlist |-> {r \in d.watchlist : r.user_id # p}]

RowsOf(d, p) ==
  [users |-> {r \in d.users : r.id = p},
   watched_movies |-> {r \in d.watched_movies : r.user_id = p},
   watched_shows |-> {r \in d.watched_shows : r.user_id = p},
   watchlist |-> {r \in d.watchlist : r.user_id = p}]

NoRows == [users |-> {}, watched_movies |-> {}, watched_shows |-> {},
           watchlist |-> {}]

\* C2: deleteUser(p) leaves no watched_movies, watched_shows or watchlist
\* row of p and no users row of p, and every row of another profile is in
\* the table afterwards exactly as before.
C2_DeleteUserCascade ==
  [][\A p \in ProfileIds :
       DeleteProfileStart(p) =>
         /\ RowsOf(db', p) = NoRows
         /\ RowsOfOthers(db', p) = RowsOfOthers(db, p)]_vars

\* a profile that owned a row in each table was deleted while another
\* profile owns rows in each table
C2_Witness ==
  /\ last = Done("deleteUser", "rows")
  /\ pending.op = "deleteProfile"
  /\ \E q \in ProfileIds : q # pending.id /\ OwnsRows(db, q)

\* C3: after addWatchedShow or updateWatchedShow of show s with the
\* watched-episode list L, getWatchedShows of the same profile has an entry
\* for s whose watched_episodes is L, in the same order.
C3_ShowRoundTrip ==
  [][\A s \in Shows, st \in Statuses, L \in EpisodeLists, d \in Dates :
       AddWatchedShow(s, st, L, d) \/ UpdateWatchedShow(s, st, L, d) =>
         \E e \in getWatchedShows(db', user.id) :
           e.show.id = s /\ e.watched_episodes = L]_vars

\* an item with exactly one nested object, the one its type names
ExactlyOneNested(it) ==
  /\ it.type = "movie" => it.movie # Undefined /\ it.show = Undefined
  /\ it.type = "tv" => it.show # Undefined /\ it.movie = Undefined
  /\ it.type \in MediaTypes

C5_AddThenGetWatchlist ==
  [][\A c \in Items, d \in Dates :
       /\ AddToWatchlist(c[1], c[2], d) \/ HandleAddToWatchlist(c, d)
       /\ ~\E w \in db.watchlist : w.user_id = user.id
       => /\ Cardinality(getWatchlist(db', user.id)) = 1
          /\ \A it \in getWatchlist(db', user.id) :
               it.type = c[1] /\ it.item_id = c[2]]_vars

\* C6: after a watchlist movie of the active profile is marked as watched,
\* getWatchlist of the profile no longer returns it and getWatchedMovies of
\* the profile returns exactly one entry for the movie, with rating 0.
C6_MarkWatchedMovie ==
  [][\A c \in Items, d \in Dates :
       HandleMarkWatched(c, d) /\ c[1] = "movie" =>
         /\ ~\E it \in getWatchlist(db', user.id) :
               it.type = "movie" /\ it.item_id = c[2]
         /\ Cardinality({e \in getWatchedMovies(db', user.id) :
                           e.movie.id = c[2]}) = 1
         /\ \A e \in getWatchedMovies(db', user.id) :
              e.movie.id = c[2] => e.rating = 0]_vars

\* C7: after updateMovieRating(m, p, r) on a movie p has watched,
\* getWatchedMovies(p) has the entry for m with rating r and the watched date
\* it had, and every other watched row is unchanged.
C7_UpdateMovieRating ==
  [][\A m \in Movies, r \in Ratings :
       /\ UpdateMovieRating(m, r)
       /\ \E x \in db.watched_movies : x.user_id = user.id /\ x.movie_id = m
       => /\ \E e \in getWatchedMovies(db', user.id) :
               /\ e.movie.id = m
               /\ e.rating = r
               /\ \E x \in db.watched_movies :
                    /\ x.user_id = user.id /\ x.movie_id = m
                    /\ x.watched_date = e.watched_date
          /\ {x \in db'.watched_movies :
                ~(x.user_id = user.id /\ x.movie_id = m)}
               = {x \in db.watched_movies :
                    ~(x.user_id = user.id /\ x.movie_id = m)}
          /\ db'.watched_shows = db.watched_shows]_vars

\* C8: once deleteProfile of the only profile in the store has completed,
\* the store holds no profile (getAllProfiles is empty), no user is active
\* and needsProfileCreation is true.
C8_DeleteLastProfile ==
  last = Done("deleteProfile", "last") =>
    /\ getAllProfiles(db) = {<<>>}
    /\ profiles = <<>>
    /\ user = NoUser
    /\ needsProfileCreation

\* the only profile, which owned rows, was deleted
C8_Witness ==
  /\ last = Done("deleteProfile", "last")
  /\ db.movies # {}
  /\ clock >= 1

\* the positions of the list that survive the deletion of p
Remaining(profs, p) == {i \in DOMAIN profs : profs[i].id # p}

\* C9: deleting one of several profiles leaves the other profiles and their
\* watched and watchlist rows as they were; when the deleted profile was the
\* active one, the first remaining profile of the list becomes active and the
\* active-profile pointer holds its id; otherwise the active profile and the
\* pointer stay.
C9_DeleteOneOfSeveral ==
  [][/\ \A p \in ProfileIds :
          DeleteProfileStart(p) /\ Cardinality(db.users) > 1 =>
            RowsOfOthers(db', p) = RowsOfOthers(db, p)
     /\ DeleteProfileFinish /\ last.note # "sole" =>
          LET rest == Remaining(profiles, pending.id)
              first == CHOOSE i \in rest : \A j \in rest : i <= j
          IN /\ db' = db
             /\ Len(profiles') = Cardinality(rest)
             /\ \A i \in rest : \E k \in DOMAIN profiles' :
                  profiles'[k] = profiles[i]
             /\ IF user.id = pending.id
                  THEN /\ user' = profiles[first]
                       /\ activeProfileId' = profiles[first].id
                  ELSE /\ user' = user
                       /\ activeProfileId' = activeProfileId]_vars

\* the active profile was deleted, two profiles remain and the new active
\* profile owns rows
C9_Witness ==
  /\ last = Done("deleteProfile", "active")
  /\ Len(profiles) >= 2
  /\ OwnsRows(db, user.id)

\* C10: startup with an empty users table sets needsProfileCreation and
\* leaves no user active; otherwise the active profile is the stored profile
\* whose id is the remembered active_profile_id when there is one, else a
\* first profile in name order, and the pointer then holds its id.
C10_Startup ==
  [][InitAuth =>
       IF db.users = {}
         THEN needsProfileCreation' /\ user' = NoUser
         ELSE /\ IF \E u \in db.users : u.id = activeProfileId
                   THEN user' \in db.users /\ user'.id = activeProfileId
                   ELSE /\ user' \in db.users
                        /\ \A u \in db.users :
                             NameOrd(user'.name) <= NameOrd(u.name)
              /\ activeProfileId' = user'.id
              /\ ~needsProfileCreation']_vars

\* startup fell back from a remembered id that is gone to the first of two
\* profiles with different names
C10_Witness ==
  /\ last = Done("initAuth", "fallback")
  /\ \E u \in db.users : NameOrd(u.name) > NameOrd(user.name)

\* C11: createProfile stores the new profile; when the store held no other
\* profile the new one becomes the active user, the active-profile pointer
\* holds its id and needsProfileCreation is cleared; when it held others the
\* profile joins the list and the active user stays.
C11_CreateProfile ==
  [][/\ \A n \in Names : CreateProfileStart(n) =>
          /\ [id |-> clock + 1, name |-> n] \in db'.users
          /\ db.users \subseteq db'.users
     /\ CreateProfileFinish =>
          LET newProfile == [id |-> pending.id, name |-> pending.name]
          IN /\ newProfile \in db'.users
             /\ \E i \in DOMAIN profiles' : profiles'[i] = newProfile
             /\ IF db.users = {newProfile}
                  THEN /\ user' = newProfile
                       /\ activeProfileId' = newProfile.id
                       /\ ~needsProfileCreation'
                  ELSE /\ user' = user
                       /\ activeProfileId' = activeProfileId]_vars

\* the first profile of an empty store was created, after an earlier profile
\* had been created and deleted
C11_Witness ==
  /\ last = Done("createProfile", "first")
  /\ clock >= 2
  /\ user \in db.users

\* C12: cacheMovie of an id leaves exactly one movies row for the id, with
\* the synopsis (and the other fields) of that call, whatever row the id had
\* before; cacheTVShow does the same in tv_shows.
C12_IdempotentCache ==
  [][/\ \A i \in Movies, o \in Overviews, g \in GenreLists :
          last'.op = "cacheMovie" /\ CacheMovie(i, o, g) =>
            /\ {m \in db'.movies : m.id = i}
                 = {[id |-> i, overview |-> o, genre_ids |-> JSONStringify(g)]}
            /\ {m \in db'.movies : m.id # i} = {m \in db.movies : m.id # i}
     /\ \A i \in Shows, o \in Overviews, g \in GenreLists :
          last'.op = "cacheTVShow" /\ CacheTVShow(i, o, g) =>
            /\ {x \in db'.tv_shows : x.id = i}
                 = {[id |-> i, overview |-> o, genre_ids |-> JSONStringify(g)]}
            /\ {x \in db'.tv_shows : x.id # i}
                 = {x \in db.tv_shows : x.id # i}]_vars

\* a movie was cached a second time with another synopsis, beside another
\* cached row
C12_Witness ==
  /\ last = Done("cacheMovie", "again")
  /\ Cardinality(db.movies) + Cardinality(db.tv_shows) >= 2

\* C13: getCachedMovie(i) is null while no movies row has id i, and right
\* after cacheMovie of an item with id i it is that item, its genre id list
\* decoded to the list that was cached; likewise getCachedTVShow.
C13_GetCached ==
  [][/\ \A i \in Movies :
          (~\E m \in db'.movies : m.id = i) => getCachedMovie(db', i) = Null
     /\ \A i \in Shows :
          (~\E x \in db'.tv_shows : x.id = i) => getCachedTVShow(db', i) = Null
     /\ \A i \in Movies, o \in Overviews, g \in GenreLists :
          last'.op = "cacheMovie" /\ CacheMovie(i, o, g) =>
            getCachedMovie(db', i) = CachedItem(i, o, g)
     /\ \A i \in Shows, o \in Overviews, g \in GenreLists :
          last'.op = "cacheTVShow" /\ CacheTVShow(i, o, g) =>
            getCachedTVShow(db', i) = CachedItem(i, o, g)]_vars

\* C14: the settings table never holds more than one row, and whenever it
\* holds the key value k (the latest setTMDBApiKey(k)) getTMDBApiKey returns
\* k, whichever profile is active and whatever profile operations ran since.
C14_ApiKeyGlobal ==
  /\ Cardinality(db.settings) <= 1
  /\ \A r \in db.settings : r.key = TmdbApiKey /\ getTMDBApiKey(db) = r.value

\* the operations that are writes of the facade
WriteOps ==
  {"setUser", "deleteUser", "updateProfile", "addWatchedMovie",
   "addToWatchlist", "setTMDBApiKey"}

\* C15: after every write that returned without an error the snapshot is the
\* in-memory store, a restart with a snapshot brings back exactly the store
\* there was before it, and a restart without a snapshot starts empty.
C15_SnapshotFollowsWrites ==
  [][/\ last'.op \in WriteOps => snapshot' = {db'}
     /\ Reload => IF snapshot = {} THEN db' = EmptyDb ELSE db' = db]_vars

\* C16: an operation whose store initialization failed is rejected and leaves
\* the store not initialized, and a facade operation that ran to its end did
\* so on an initialized store.
C16_InitFailureRejects ==
  /\ last.note = "rejected" => ~isInitialized
  /\ last.op \in FacadeOps => dbOpen /\ isInitialized

\* C17: a read of a stored row whose array text is absent or empty returns
\* the item with the empty array, and a read of a stored row whose array
\* text is malformed fails with an error (getCachedMovie by id,
\* getWatchedShows of the active profile).
C17_MalformedTextFails ==
  [][/\ \A i \in Movies : GetCachedMovie(i) =>
          \A m \in db.movies : m.id = i =>
            IF IsJSON(OrEmptyArray(m.genre_ids))
              THEN m.genre_ids = <<>> =>
                     /\ last'.note = "item"
                     /\ getCachedMovie(db, i).genre_ids = <<>>
              ELSE last'.note = "error"
     /\ GetWatchedShows =>
          \A ws \in db.watched_shows : ws.user_id = user.id =>
            IF IsJSON(OrEmptyArray(ws.watched_episodes))
              THEN ws.watched_episodes = <<>> /\ last'.note # "error" =>
                     \E x \in getWatchedShows(db, user.id) :
                        x.show.id = ws.show_id /\ x.watched_episodes = <<>>
              ELSE last'.note = "error"]_vars

UserIds(d) == {r.id : r \in d.users}

\* C18: an update of a profile whose id is not in the store ends with an
\* error and adds no profile row, for storage.updateUser and for the
\* session's updateProfile.
C18_UpdateMissingProfile ==
  [][/\ \A p \in ProfileIds, n \in Names :
          UpdateUser(p, n) /\ p \notin UserIds(db) =>
            last'.note = "error" /\ db'.users = db.users
     /\ \A p \in ProfileIds :
          last'.op = "updateProfile" /\ p \notin UserIds(db) =>
            /\ p \notin UserIds(db')
            /\ user.id = p => last'.note = "error"]_vars

\* C19: clearUserData(p) leaves no watched_movies, watched_shows or watchlist
\* row of p, and the users table (the row of p included), both cache tables,
\* the settings and every row of every other profile are as before.
C19_ClearUserData ==
  [][ClearUserData =>
       /\ RowsOf(db', user.id) = RowsOf([db EXCEPT !.watched_movies = {},
                                                   !.watched_shows = {},
                                                   !.watchlist = {}], user.id)
       /\ RowsOfOthers(db', user.id) = RowsOfOthers(db, user.id)
       /\ db'.users = db.users
       /\ db'.movies = db.movies
       /\ db'.tv_shows = db.tv_shows
       /\ db'.settings = db.settings]_vars

\* a profile that owned rows was cleared while another profile owns rows, the
\* caches hold items and the API key is set
C19_Witness ==
  /\ last = Done("clearUserData", "rows")
  /\ \E q \in ProfileIds : q # user.id /\ OwnsRows(db, q)
  /\ RowsOf(db, user.id).users # {}
  /\ db.movies # {}
  /\ db.tv_shows # {}
  /\ db.settings # {}

\* every watched and watchlist row of d has the cache row of its item
HasMetadata(d) ==
  /\ \A r \in d.watched_movies : \E m \in d.movies : m.id = r.movie_id
  /\ \A r \in d.watched_shows : \E x \in d.tv_shows : x.id = r.show_id
  /\ \A w \in d.watchlist :
       IF w.item_type = "movie" THEN \E m \in d.movies : m.id = w.item_id
       ELSE \E x \in d.tv_shows : x.id = w.item_id

\* C20: in every reachable state, between the two statements of an add
\* operation and after a reload there included, every watched_movies,
\* watched_shows and watchlist row has its cache row, in the store and in
\* the snapshot a restart would load.
C20_CacheBeforeLink ==
  /\ HasMetadata(db)
  /\ \A d \in snapshot : HasMetadata(d)

\* the tab was reloaded between the two statements of an add operation: the
\* cache row is there without a dependent row
C20_Witness ==
  /\ last.op = "reload"
  /\ last.note \in AddOps
  /\ db.movies \cup db.tv_shows # {}
  /\ RowCount(db) = 0

ProfileOps == {"switchProfile", "createProfile", "updateProfile", "deleteProfile"}

\* the rendered profile list holds exactly the rows of the users table, and
\* the active user is one of them, or there is none when the list is empty
SessionMatchesStore ==
  /\ {profiles[i] : i \in DOMAIN profiles} = db.users
  /\ Len(profiles) = Cardinality(db.users)
  /\ IF Len(profiles) = 0 THEN user = NoUser
     ELSE \E i \in DOMAIN profiles : profiles[i] = user

\* C21: when a switchProfile, createProfile, updateProfile or deleteProfile
\* call has completed and no such call is in flight, the profile list holds
\* exactly the stored profiles and the active user is one of them, overlapping
\* calls included.
C21_SessionFollowsStore ==
  last.op \in ProfileOps /\ pending = NoPending => SessionMatchesStore

\* C22: an initialization never assigns a new store when the handle already
\* holds one, and an initialization that completes while a handle exists
\* leaves every row written through the facade in the store.
C22_InitializedOnce ==
  [][InitDatabaseResumes => ~dbOpen /\ (dbOpen => db' = db)]_vars

\* C23: every watched_movies, watched_shows and watchlist row references a
\* profile that has a row in the users table.
C23_RowsReferenceProfiles ==
  \A r \in db.watched_movies \cup db.watched_shows \cup db.watchlist :
    \E u \in db.users : u.id = r.user_id

\* C24: once deleteProfile of the last remaining profile has completed, the
\* store holds no watched_movies, watched_shows or watchlist row and no
\* settings row.
C24_DeleteLastDeletesAll ==
  last = Done("deleteProfile", "last") =>
    /\ db.watched_movies = {}
    /\ db.watched_shows = {}
    /\ db.watchlist = {}
    /\ db.settings = {}

\* C25: once handleCreateProfile of the Settings page has completed, the
\* active user is the profile it created and the active-profile pointer
\* holds that profile's id.
C25_CreatedProfileIsActive ==
  last.op = "handleCreateProfile" => user.id = clock /\ activeProfileId = clock

IsolationOps ==
  {"addWatchedMovie", "removeWatchedMovie", "updateMovieRating",
   "addWatchedShow", "updateWatchedShow", "removeWatchedShow",
   "addToWatchlist", "removeFromWatchlist"}

\* C26: an add, update or remove operation of the active profile leaves the
\* watched_movies, watched_shows and watchlist rows of every other profile as
\* they were, and afterwards the lists read for a profile hold only rows of
\* that profile.
C26_ProfileIsolation ==
  [][last'.op \in IsolationOps /\ db' # db =>
       /\ RowsOfOthers(db', user.id) = RowsOfOthers(db, user.id)
       /\ \A q \in UserIds(db') :
            /\ \A x \in getWatchedMovies(db', q) : x.user_id = q
            /\ \A x \in getWatchedShows(db', q) : x.user_id = q
            /\ \A x \in getWatchlist(db', q) : x.user_id = q]_vars

\* the active profile removed a watched movie while another profile has a
\* watched movie
C26_Witness ==
  /\ last.op = "removeWatchedMovie"
  /\ \E r \in db.watched_movies : r.user_id # user.id
  /\ \A r \in db.watched_movies : r.user_id # user.id

\* C27: whenever a user is active the active-profile pointer holds that
\* user's id, and once the last profile has been deleted the pointer is
\* absent.
C27_PointerFollowsUser ==
  /\ user # NoUser => activeProfileId = user.id
  /\ last = Done("deleteProfile", "last") => activeProfileId = NoProfile

\* the active profile was deleted and the pointer moved to the profile that
\* took over
C27_Witness ==
  /\ last = Done("deleteProfile", "active")
  /\ user # NoUser
  /\ activeProfileId = user.id
  /\ \A u \in db.users : u.id # clock

\* C28: once startup has completed and no createProfile or deleteProfile
\* call is in flight, needsProfileCreation is true exactly when the users
\* table holds no profile.
C28_NeedsProfileCreation ==
  ~isLoading /\ pending = NoPending =>
    (needsProfileCreation <=> db.users = {})

\* C29: once startup has ended (isLoading is false), needsProfileCreation is
\* true or a user is active.
C29_NoDeadRoute ==
  ~isLoading => needsProfileCreation \/ user # NoUser

\* the item is a watchlist row of the profile
OnWatchlist(d, userId, c) ==
  \E w \in d.watchlist :
    w.user_id = userId /\ w.item_type = c[1] /\ w.item_id = c[2]

\* the item is a watched row of the profile
InWatched(d, userId, c) ==
  IF c[1] = "movie"
    THEN \E w \in d.watched_movies : w.user_id = userId /\ w.movie_id = c[2]
    ELSE \E w \in d.watched_shows : w.user_id = userId /\ w.show_id = c[2]

ItemPresent(d, userId, c) == OnWatchlist(d, userId, c) \/ InWatched(d, userId, c)

\* C30: every step of handleMarkWatched keeps an item that is on the
\* profile's watchlist or in its watched rows in one of the two, in the
\* running store and in the stored snapshot a restart loads, and removes a
\* watchlist row only when the watched row is already written.
C30_MarkWatchedKeepsItem ==
  [][last'.op = "handleMarkWatched" =>
       \A u \in ProfileIds, c \in Items :
         /\ ItemPresent(db, u, c) => ItemPresent(db', u, c)
         /\ ItemPresent(initDatabase(snapshot), u, c)
              => ItemPresent(initDatabase(snapshot'), u, c)
         /\ OnWatchlist(db, u, c) /\ ~OnWatchlist(db', u, c)
              => InWatched(db, u, c)]_vars

\* the tab was reloaded between the two store calls: the item is on the
\* watchlist and in the watched rows
C30_Witness ==
  /\ last = Done("reload", "handleMarkWatched")
  /\ \E u \in ProfileIds, c \in Items :
       OnWatchlist(db, u, c) /\ InWatched(db, u, c)

====
